---------------------------- MODULE Spec2Model ----------------------------
(***************************************************************************)
(* Model of the computed-column formula evaluator                          *)
(* (server/jamovi/server/compute/nodes.py): the typed AST node family,     *)
(* its dependency graph (parent back-references, upward invalidation),     *)
(* the function-call node (sub-function synthesis, memoization, level      *)
(* discovery, release) and the value semantics of the operator nodes.      *)
(*                                                                         *)
(* Three specifications share the variables:                               *)
(*   Spec       a compiled formula tree: evaluation, invalidation, release *)
(*   SpecTypes  a compiled call: its synthesized arguments, and the type   *)
(*              properties read from its nodes, with invalidation          *)
(*   SpecEval   one operator node evaluated over operand values, and the   *)
(*              level discovery of a call node over a column of values     *)
(***************************************************************************)
EXTENDS Integers, Sequences, FiniteSets, TLC

(***************************************************************************)
(* Bounds of the model.                                                    *)
(***************************************************************************)
\* rows of the dataset (row indices are 0..RowCount-1)
RowCount == 3
\* invocations of one call's registry function counted between two invalidations
MaxInvoked == 2
\* operands of a boolean chain / comparators of a comparator chain
MaxOperands == 3

Rows == 0 .. (RowCount - 1)

(***************************************************************************)
(* Values.  Python scalars of several types flow through the evaluator;    *)
(* each is a record with the same fields so that any two can be compared:  *)
(*   t  the Python type: "int", "float", "str", "tuple", "none", "raise"   *)
(*   n,d  an int is n (d = 1); a float is the rational n/d, d > 0, in      *)
(*        lowest terms; float('nan') is the record NaN; a tuple is the     *)
(*        labelled value (n, s)                                            *)
(*   s  the text of a str, the label of a tuple, the exception of a raise  *)
(***************************************************************************)
IntV(k) == [t |-> "int", n |-> k, d |-> 1, s |-> ""]
StrV(x) == [t |-> "str", n |-> 0, d |-> 1, s |-> x]
TupleV(k, x) == [t |-> "tuple", n |-> k, d |-> 1, s |-> x]
None == [t |-> "none", n |-> 0, d |-> 1, s |-> ""]
NaN == [t |-> "float", n |-> 0, d |-> 0, s |-> "nan"]
Raise(x) == [t |-> "raise", n |-> 0, d |-> 1, s |-> x]

Abs(k) == IF k < 0 THEN -k ELSE k

RECURSIVE Gcd(_, _)
Gcd(a, b) == IF b = 0 THEN a ELSE Gcd(b, a % b)

\* the float n/d (d # 0), normalised
FloatV(a, b) ==
    LET g == Gcd(Abs(a), Abs(b))
        sg == IF b < 0 THEN -1 ELSE 1
    IN  [t |-> "float", n |-> (sg * a) \div g, d |-> (sg * b) \div g, s |-> ""]

IsRaise(v) == v.t = "raise"

\* floor(a/b) for b > 0 (TLA+ \div floors)
Floor(v) == v.n \div v.d

\* int(v) truncates toward zero
Trunc(v) == IF v.n >= 0 THEN v.n \div v.d ELSE -((-v.n) \div v.d)

(***************************************************************************)
(* utils: is_missing, get_missing, convert.                                *)
(***************************************************************************)
\* the reserved minimum integer
INT_MISSING == -2147483647 - 1

get_missing(type) ==
    CASE type = "int" -> IntV(INT_MISSING)
      [] type = "float" -> NaN
      [] type = "str" -> StrV("")
      [] OTHER -> IntV(INT_MISSING)

\* the empty string is missing only when the caller asks for it
is_missing_ex(value, empty_str_is_missing) ==
    CASE value.t = "int" -> value.n = INT_MISSING
      [] value.t = "float" -> value = NaN
      [] value.t = "str" -> empty_str_is_missing /\ value.s = ""
      [] value.t = "tuple" -> value.n = INT_MISSING
      [] OTHER -> FALSE

is_missing(value) == is_missing_ex(value, FALSE)

\* the integers a text can spell
ParseRange == 9

ParseInt(x) ==
    IF \E k \in (-ParseRange) .. ParseRange : ToString(k) = x
    THEN IntV(CHOOSE k \in (-ParseRange) .. ParseRange : ToString(k) = x)
    ELSE IntV(INT_MISSING)

\* str(float) for the floats whose text is short: k.0 and k.5
FloatToStr(v) ==
    CASE v.d = 1 -> ToString(v.n) \o ".0"
      [] v.d = 2 -> (IF v.n < 0 THEN "-" ELSE "") \o ToString(Abs(v.n) \div 2) \o ".5"

convert(value, type) ==
    CASE type = "none" -> value
      [] type = "int" ->
            (CASE value.t = "int" -> value
               [] value.t = "float" ->
                     IF value = NaN THEN IntV(INT_MISSING) ELSE IntV(Trunc(value))
               [] value.t = "str" -> ParseInt(value.s)
               [] value.t = "tuple" -> IntV(value.n)
               [] OTHER -> IntV(INT_MISSING))
      [] type = "float" ->
            (CASE value.t = "int" ->
                     IF value.n = INT_MISSING THEN NaN ELSE FloatV(value.n, 1)
               [] value.t = "float" -> value
               [] value.t = "str" ->
                     LET i == ParseInt(value.s)
                     IN  IF i.n = INT_MISSING THEN NaN ELSE FloatV(i.n, 1)
               [] value.t = "tuple" ->
                     IF value.n = INT_MISSING THEN NaN ELSE FloatV(value.n, 1)
               [] OTHER -> NaN)
      [] type = "str" ->
            (CASE value.t = "int" ->
                     IF value.n = INT_MISSING THEN StrV("") ELSE StrV(ToString(value.n))
               [] value.t = "float" ->
                     IF value = NaN THEN StrV("") ELSE StrV(FloatToStr(value))
               [] value.t = "str" -> value
               [] value.t = "tuple" -> StrV(value.s)
               [] OTHER -> StrV(""))

\* Python truthiness of a scalar (``not value``)
Truthy(value) ==
    CASE value.t = "int" -> value.n # 0
      [] value.t = "float" -> value.n # 0 \/ value = NaN
      [] value.t = "str" -> value.s # ""
      [] OTHER -> FALSE


(***************************************************************************)
(* functions: the registry.  Each function carries its signature (the      *)
(* parameters after the implicit row index of a row-wise function, their   *)
(* annotations and defaults) and its meta (row-wise or column-wise, the     *)
(* argument positions that drive the result type and seed the levels, the  *)
(* static result type).  A default of "" is not a function.                *)
(***************************************************************************)
FunctionNames == {"VMEAN", "VSTDEV", "Z", "OFFSET", "IF"}

meta(name) ==
    CASE name = "VMEAN" ->
            [is_row_wise |-> FALSE, is_column_wise |-> TRUE,
             param_names |-> <<"x">>, annotation |-> <<"float">>,
             default |-> <<"">>, returns |-> <<>>, arg_level_indices |-> <<>>,
             d_type |-> "DECIMAL", m_type |-> "CONTINUOUS"]
      [] name = "VSTDEV" ->
            [is_row_wise |-> FALSE, is_column_wise |-> TRUE,
             param_names |-> <<"x">>, annotation |-> <<"float">>,
             default |-> <<"">>, returns |-> <<>>, arg_level_indices |-> <<>>,
             d_type |-> "DECIMAL", m_type |-> "CONTINUOUS"]
      [] name = "Z" ->
            [is_row_wise |-> TRUE, is_column_wise |-> FALSE,
             param_names |-> <<"x", "v_mean", "v_stdev">>,
             annotation |-> <<"float", "float", "float">>,
             default |-> <<"", "VMEAN", "VSTDEV">>,
             returns |-> <<>>, arg_level_indices |-> <<>>,
             d_type |-> "DECIMAL", m_type |-> "CONTINUOUS"]
      [] name = "OFFSET" ->
            [is_row_wise |-> TRUE, is_column_wise |-> FALSE,
             param_names |-> <<"arg", "offset">>, annotation |-> <<"none", "int">>,
             default |-> <<"", "">>, returns |-> <<0>>, arg_level_indices |-> <<0>>,
             d_type |-> "INTEGER", m_type |-> "NOMINAL"]
      [] name = "IF" ->
            [is_row_wise |-> TRUE, is_column_wise |-> FALSE,
             param_names |-> <<"cond", "x", "y">>,
             annotation |-> <<"int", "none", "none">>,
             default |-> <<"", "", "">>, returns |-> <<1, 2>>,
             arg_level_indices |-> <<1, 2>>,
             d_type |-> "INTEGER", m_type |-> "NOMINAL"]

(***************************************************************************)
(* The tree.  heap is the sequence of the nodes constructed so far; a node *)
(* is named by its index.  One record shape serves every node class:       *)
(*   kind   "Column" (the value-source leaf), "Num", "UnaryOp", "Call"     *)
(*   op     UnaryOp.op           n     Num.n                               *)
(*   args   Call.args; for a UnaryOp, <<operand>>                          *)
(*   function, arg_types, cached_value   the Call's fields                 *)
(*   node_parents                         Node._node_parents               *)
(*   d_type, m_type   Call._d_type and Call._m_type ("None" until they are *)
(*                    determined); for a Column, its declared types        *)
(***************************************************************************)
VARIABLES heap, root, invoked, evals, reads, result, error, released, last

graphVars == <<heap, root, invoked, evals, reads, result, error, released, last>>

\* SpecEval: the operator node evaluated and what its evaluation gave
VARIABLES expr, outcome

evalVars == <<expr, outcome>>

\* the operation that acted last: its name, its node and its row index
Op(name, self, index) == [op |-> name, self |-> self, index |-> index]

Node(kind) ==
    [kind |-> kind, op |-> "", n |-> None, function |-> "", args |-> <<>>,
     arg_types |-> <<>>, cached_value |-> None, node_parents |-> <<>>,
     d_type |-> "None", m_type |-> "None"]

SeqRange(q) == {q[i] : i \in 1 .. Len(q)}

add_node_parent(h, self, node) ==
    [h EXCEPT ![self].node_parents = Append(@, node)]

\* list.remove: drops the first occurrence
RECURSIVE ListRemove(_, _)
ListRemove(q, x) ==
    IF q = <<>> THEN <<>>
    ELSE IF Head(q) = x THEN Tail(q)
    ELSE <<Head(q)>> \o ListRemove(Tail(q), x)

(***************************************************************************)
(* Call.__init__.  The node is allocated first, its args are set last.     *)
(* The default sub-functions of the registry take no function-valued       *)
(* defaults themselves, so the list sub_func_args, which every synthesized *)
(* call receives as its args, is never appended to.                        *)
(***************************************************************************)
\* the number of leading parameters that are not trailing sub-functions
RECURSIVE sub_arg_len(_, _)
sub_arg_len(default, k) ==
    IF k >= 1 /\ default[k] # "" THEN sub_arg_len(default, k - 1) ELSE k

SubSeqTo(q, k) == SubSeq(q, 1, IF k < Len(q) THEN k ELSE Len(q))

RECURSIVE AddParentEach(_, _, _)
AddParentEach(h, q, node) ==
    IF q = <<>> THEN h
    ELSE AddParentEach(add_node_parent(h, Head(q), node), Tail(q), node)

RECURSIVE Call_init(_, _, _), SynthesizeFrom(_, _, _, _, _)
\* the loop ``for i in range(sub_arg_len, len(param_names))``, i counted from 0
SynthesizeFrom(h, name, args, sub_func_args, i) ==
    IF i >= Len(meta(name).param_names) THEN [heap |-> h, args |-> args]
    ELSE IF Len(args) <= i
         THEN LET sub_func_name == meta(name).default[i + 1]
                  made == Call_init(h, sub_func_name, sub_func_args)
                  h2 == AddParentEach(made.heap, sub_func_args, made.id)
              IN  SynthesizeFrom(h2, name, Append(args, made.id), sub_func_args, i + 1)
         ELSE [heap |-> h, args |-> args]

Call_init(h, name, args) ==
    LET self == Len(h) + 1
        h1 == Append(h, [Node("Call") EXCEPT !.function = name,
                                             !.arg_types = meta(name).annotation])
        len == sub_arg_len(meta(name).default, Len(meta(name).param_names))
        sub_func_args == SubSeqTo(args, len)
        done == SynthesizeFrom(h1, name, args, sub_func_args, len)
    IN  [heap |-> [done.heap EXCEPT ![self].args = done.args], id |-> self]

(***************************************************************************)
(* The parser (out of the excerpt): it builds the tree bottom-up and       *)
(* registers each new node as a parent of every node wired in as one of    *)
(* its arguments.  An expression is <<"Column", dt, mt>>, <<"Num", v>>,    *)
(* <<"UnaryOp", op, e>> or <<"Call", name, <<e, ...>>>>.                   *)
(***************************************************************************)
RECURSIVE Build(_, _), BuildEach(_, _, _)
BuildEach(h, exprs, ids) ==
    IF exprs = <<>> THEN [heap |-> h, ids |-> ids]
    ELSE LET b == Build(h, Head(exprs))
         IN  BuildEach(b.heap, Tail(exprs), Append(ids, b.id))

Build(h, e) ==
    CASE e[1] = "Column" ->
            [heap |-> Append(h, [Node("Column") EXCEPT !.d_type = e[2], !.m_type = e[3]]),
             id |-> Len(h) + 1]
      [] e[1] = "Num" ->
            [heap |-> Append(h, [Node("Num") EXCEPT !.n = e[2]]), id |-> Len(h) + 1]
      [] e[1] = "UnaryOp" ->
            LET b == Build(h, e[3])
                self == Len(b.heap) + 1
                h1 == Append(b.heap, [Node("UnaryOp") EXCEPT !.op = e[2],
                                                             !.args = <<b.id>>])
            IN  [heap |-> add_node_parent(h1, b.id, self), id |-> self]
      [] e[1] = "Call" ->
            LET bs == BuildEach(h, e[3], <<>>)
                made == Call_init(bs.heap, e[2], bs.ids)
            IN  [heap |-> AddParentEach(made.heap, made.heap[made.id].args, made.id),
                 id |-> made.id]

\* a column of the dataset with its declared data type and measure type
TypedColumn(dt, mt) == <<"Column", dt, mt>>

Column == TypedColumn("INTEGER", "ORDINAL")

\* the formulas the model compiles
Formulas ==
    << <<"Call", "VMEAN", <<Column>> >>,
       <<"Call", "VSTDEV", << <<"Call", "VMEAN", <<Column>> >> >> >>,
       <<"UnaryOp", "Invert", <<"Call", "VMEAN", <<Column>> >> >>,
       <<"Call", "Z", <<Column>> >>,
       <<"Call", "Z", << <<"UnaryOp", "USub", Column>> >> >>,
       <<"Call", "OFFSET", <<Column, <<"Num", IntV(-1)>> >> >>,
       <<"Call", "OFFSET", <<Column, <<"Num", IntV(0)>> >> >>,
       <<"Call", "OFFSET", <<Column, <<"Num", IntV(1)>> >> >>,
       <<"Call", "OFFSET", <<Column, <<"Num", IntV(2)>> >> >> >>

Nodes == 1 .. Len(heap)
CallNodes == {k \in Nodes : heap[k].kind = "Call"}

(***************************************************************************)
(* The value source (out of the excerpt): the leaf's value at a row, read  *)
(* through the filter or not.  A row outside the dataset is an error of    *)
(* that layer.                                                             *)
(***************************************************************************)
ColumnValue(index, filt) ==
    IF index \in Rows
    THEN IntV((IF filt THEN 20 ELSE 10) + index)
    ELSE Raise("IndexError")

\* a counter that stops at MaxInvoked ("MaxInvoked or more")
Bump(c) == IF c < MaxInvoked THEN c + 1 ELSE c

Negate(v) ==
    CASE v.t = "int" -> IntV(-v.n)
      [] v.t = "float" -> FloatV(-v.n, v.d)
      [] OTHER -> Raise("TypeError")

\* UnaryOp.fvalue, given the operand's value v
UnaryOp_fvalue(op, v) ==
    IF IsRaise(v) THEN v
    ELSE CASE op = "USub" ->
                IF is_missing(v) THEN v
                ELSE Negate(IF v.t = "tuple" THEN IntV(v.n) ELSE v)
           [] op = "UAdd" ->
                IF is_missing(v) THEN v
                ELSE IF v.t = "tuple" THEN IntV(v.n)
                ELSE IF v.t = "str"
                     THEN (IF ParseInt(v.s).n = INT_MISSING
                           THEN Raise("ValueError")
                           ELSE FloatV(ParseInt(v.s).n, 1))
                     ELSE v
           [] op = "Not" ->
                IF is_missing(v) THEN v
                ELSE IF Truthy(IF v.t = "tuple" THEN IntV(v.n) ELSE v)
                     THEN IntV(0) ELSE IntV(1)
           [] op = "Invert" -> IF is_missing(v) THEN IntV(0) ELSE v
           [] OTHER -> Raise("RuntimeError")

(***************************************************************************)
(* fvalue.  m is the machine: the heap and the ghost records, kept since   *)
(* a call's last invalidation, of the calls evaluated (evals) and of how   *)
(* often the registry function of each was invoked (invoked), and of the   *)
(* rows of the leaves this evaluation read (reads).  ret gives, for each call   *)
(* node, what its registry function returns when invoked: the function     *)
(* bodies are outside the evaluator.                                       *)
(***************************************************************************)
RECURSIVE fvalue(_, _, _, _, _), Call_fvalue(_, _, _, _, _)
RECURSIVE FvalueEach(_, _, _, _, _, _), FValues(_, _, _, _, _, _)

\* map(lambda arg: arg.fvalue(index, row_count, filt), args)
FvalueEach(m, args, index, filt, ret, vs) ==
    IF args = <<>> THEN [m |-> m, vs |-> vs]
    ELSE LET r == fvalue(m, Head(args), index, filt, ret)
         IN  FvalueEach(r.m, Tail(args), index, filt, ret, Append(vs, r.v))

\* the lazy column view of a node, drawn in full by the function it is handed to
FValues(m, node, index, filt, ret, vs) ==
    IF index >= RowCount THEN [m |-> m, vs |-> vs]
    ELSE LET r == fvalue(m, node, index, filt, ret)
         IN  FValues(r.m, node, index + 1, filt, ret, Append(vs, r.v))

RECURSIVE FValuesEach(_, _, _, _, _)
FValuesEach(m, args, filt, ret, cols) ==
    IF args = <<>> THEN [m |-> m, cols |-> cols]
    ELSE LET r == FValues(m, Head(args), 0, filt, ret, <<>>)
         IN  FValuesEach(r.m, Tail(args), filt, ret, Append(cols, r.vs))

AnyRaise(vs) == \E i \in 1 .. Len(vs) : IsRaise(vs[i])
FirstRaise(vs) == vs[CHOOSE i \in 1 .. Len(vs) :
                        IsRaise(vs[i]) /\ \A j \in 1 .. (i - 1) : ~IsRaise(vs[j])]

\* the memo of a column-wise call is filled when it is None
MemoAbsent(cached_value) == cached_value = None

Call_fvalue(m, self, index, filt, ret) ==
    LET node == m.heap[self]
        m0 == [m EXCEPT !.evals = @ \cup {self}]
    IN  IF node.function = "OFFSET"
        THEN LET r1 == fvalue(m0, node.args[2], index, FALSE, ret)
                 offset == convert(r1.v, "int")
             IN  IF IsRaise(r1.v) THEN r1
                 ELSE IF index < offset.n THEN [m |-> r1.m, v |-> NaN]
                 ELSE fvalue(r1.m, node.args[1], index - offset.n, FALSE, ret)
        ELSE IF meta(node.function).is_column_wise
        THEN IF MemoAbsent(node.cached_value)
             THEN LET r == FValuesEach(m0, node.args, filt, ret, <<>>)
                      bad == {i \in 1 .. Len(r.cols) : AnyRaise(r.cols[i])}
                      m1 == [r.m EXCEPT !.invoked[self] = Bump(@)]
                  IN  IF bad # {}
                      THEN [m |-> m1, v |-> FirstRaise(r.cols[CHOOSE i \in bad :
                                                      \A j \in bad : i <= j])]
                      ELSE [m |-> [m1 EXCEPT !.heap[self].cached_value = ret[self]],
                            v |-> ret[self]]
             ELSE [m |-> m0, v |-> node.cached_value]
        ELSE LET r == FvalueEach(m0, node.args, index, FALSE, ret, <<>>)
             IN  IF AnyRaise(r.vs) THEN [m |-> r.m, v |-> FirstRaise(r.vs)]
                 ELSE [m |-> [r.m EXCEPT !.invoked[self] = Bump(@)], v |-> ret[self]]

fvalue(m, self, index, filt, ret) ==
    LET node == m.heap[self]
    IN  CASE node.kind = "Column" ->
                [m |-> [m EXCEPT !.reads = @ \cup {<<self, index, filt>>}],
                 v |-> ColumnValue(index, filt)]
          [] node.kind = "Num" -> [m |-> m, v |-> node.n]
          [] node.kind = "UnaryOp" ->
                LET r == fvalue(m, node.args[1], index, filt, ret)
                IN  [m |-> r.m, v |-> UnaryOp_fvalue(node.op, r.v)]
          [] node.kind = "Call" -> Call_fvalue(m, self, index, filt, ret)

(***************************************************************************)
(* set_needs_recalc: Node's propagates to every parent; Call's clears the  *)
(* memo first.  A new epoch of the ghost counters starts with the memo.    *)
(***************************************************************************)
RECURSIVE set_needs_recalc(_, _), RecalcEach(_, _)
RecalcEach(m, parents) ==
    IF parents = <<>> THEN m
    ELSE RecalcEach(set_needs_recalc(m, Head(parents)), Tail(parents))

Node_set_needs_recalc(m, self) == RecalcEach(m, m.heap[self].node_parents)

Call_set_needs_recalc_NoPropagate(m, self) ==
    [m EXCEPT !.heap[self].cached_value = None,
              !.invoked[self] = 0, !.evals = @ \ {self}]

Call_set_needs_recalc(m, self) ==
    Node_set_needs_recalc(
        [m EXCEPT !.heap[self].cached_value = None,
                  !.invoked[self] = 0, !.evals = @ \ {self}], self)

set_needs_recalc(m, self) ==
    IF m.heap[self].kind = "Call"
    THEN Call_set_needs_recalc(m, self)
    ELSE Node_set_needs_recalc(m, self)

\* Call.needs_recalc
needs_recalc(node) == IF node.kind = "Call" THEN node.cached_value = None ELSE FALSE

(***************************************************************************)
(* _release.  r carries the heap, the exception raised so far (a raise     *)
(* unwinds the whole release) and the nodes whose _release has been run.   *)
(***************************************************************************)
remove_node_parent(r, self, node) ==
    IF r.error # "none" THEN r
    ELSE IF node \in SeqRange(r.heap[self].node_parents)
    THEN [r EXCEPT !.heap[self].node_parents = ListRemove(@, node)]
    ELSE [r EXCEPT !.error = "ValueError"]

RECURSIVE release(_, _), ReleaseEach(_, _, _)
\* for arg in self.args: arg._release(); arg._remove_node_parent(self)
ReleaseEach(r, self, args) ==
    IF args = <<>> \/ r.error # "none" THEN r
    ELSE ReleaseEach(remove_node_parent(release(r, Head(args)), Head(args), self),
                     self, Tail(args))

release(r, self) ==
    IF r.error # "none" THEN r
    ELSE LET node == r.heap[self]
             r0 == [r EXCEPT !.released = @ \cup {self}]
         IN  CASE node.kind = "UnaryOp" -> ReleaseEach(r0, self, node.args)
               [] node.kind = "Call" -> ReleaseEach(r0, self, node.args)
               [] OTHER -> r0

(***************************************************************************)
(* The operator nodes.  Their operands are given by the value each yields  *)
(* at the row evaluated (values[i] is what operand i's fvalue returns);    *)
(* evaluated lists the operands whose fvalue was called, in call order.    *)
(***************************************************************************)
\* ``if isinstance(value, tuple): value = value[0]``
Untuple(value) == IF value.t = "tuple" THEN IntV(value.n) ELSE value

\* BoolOp.fvalue, the And loop from operand i on
RECURSIVE BoolOp_And(_, _, _, _)
BoolOp_And(values, i, to_return, evaluated) ==
    IF i > Len(values) THEN [v |-> to_return, evaluated |-> evaluated]
    ELSE LET value == values[i]
             seen == Append(evaluated, i)
         IN  IF is_missing(value) THEN BoolOp_And(values, i + 1, value, seen)
             ELSE IF ~Truthy(Untuple(value)) THEN [v |-> IntV(0), evaluated |-> seen]
             ELSE BoolOp_And(values, i + 1, to_return, seen)

\* BoolOp.fvalue, the Or loop from operand i on
RECURSIVE BoolOp_Or(_, _, _, _)
BoolOp_Or(values, i, to_return, evaluated) ==
    IF i > Len(values) THEN [v |-> to_return, evaluated |-> evaluated]
    ELSE LET value == values[i]
             seen == Append(evaluated, i)
         IN  IF is_missing(value) THEN BoolOp_Or(values, i + 1, value, seen)
             ELSE IF Truthy(Untuple(value)) THEN [v |-> IntV(1), evaluated |-> seen]
             ELSE BoolOp_Or(values, i + 1, to_return, seen)

\* a BoolOp that evaluates every operand before it answers
BoolOp_fvalue_EvaluatesAll(op, values) ==
    [v |-> (CASE op = "And" -> BoolOp_And(values, 1, IntV(1), <<>>)
              [] op = "Or" -> BoolOp_Or(values, 1, IntV(0), <<>>)).v,
     evaluated |-> [i \in 1 .. Len(values) |-> i]]

\* a BoolOp that lets a missing operand decide as soon as it is met
BoolOp_fvalue_MissingStops(op, values) ==
    LET stop == {i \in 1 .. Len(values) : is_missing(values[i])}
        cut == IF stop = {} THEN values
               ELSE SubSeq(values, 1, CHOOSE i \in stop : \A j \in stop : i <= j)
    IN  CASE op = "And" -> BoolOp_And(cut, 1, IntV(1), <<>>)
          [] op = "Or" -> BoolOp_Or(cut, 1, IntV(0), <<>>)

BoolOp_fvalue(op, values) ==
    CASE op = "And" -> BoolOp_And(values, 1, IntV(1), <<>>)
      [] op = "Or" -> BoolOp_Or(values, 1, IntV(0), <<>>)
      [] OTHER -> [v |-> Raise("RuntimeError"), evaluated |-> <<>>]

\* the texts of the model in Python's string order
StrOrder == <<"", "0", "2", "a", "b">>
StrRank(x) == CHOOSE i \in 1 .. Len(StrOrder) : StrOrder[i] = x

IsNumber(v) == v.t = "int" \/ v.t = "float"

\* v1 < v2 for two numbers or two texts; anything else is a TypeError
Less(v1, v2) ==
    IF IsNumber(v1) /\ IsNumber(v2) THEN v1.n * v2.d < v2.n * v1.d
    ELSE StrRank(v1.s) < StrRank(v2.s)

Comparable(v1, v2) ==
    \/ IsNumber(v1) /\ IsNumber(v2)
    \/ v1.t = "str" /\ v2.t = "str"

\* v1 == v2 for plain scalars: numbers by value, texts by text, else unequal
PyEq(v1, v2) ==
    IF IsNumber(v1) /\ IsNumber(v2) THEN v1.n * v2.d = v2.n * v1.d
    ELSE v1.t = "str" /\ v2.t = "str" /\ v1.s = v2.s

\* math.isclose(float(v1), float(v2)): float() of a text that spells no number
\* raises; the model's numbers are far apart, so close means equal
IsCloseRaises(v1, v2) ==
    \E v \in {v1, v2} : v.t = "str" /\ ParseInt(v.s).n = INT_MISSING

IsClose(v1, v2) == PyEq(convert(v1, "float"), convert(v2, "float"))

\* a Python bool
Bool(b) == [t |-> "bool", n |-> IF b THEN 1 ELSE 0, d |-> 1, s |-> ""]

\* Compare._test: a bool, or the exception raised
Compare_test(a, op, b) ==
    LET v1 == IF a.t = "tuple" /\ b.t = "tuple" THEN convert(a, "int")
              ELSE IF a.t = "tuple"
                   THEN (IF b.t = "str" THEN StrV(a.s) ELSE IntV(a.n))
              ELSE a
        v2 == IF a.t = "tuple" /\ b.t = "tuple" THEN convert(b, "int")
              ELSE IF a.t = "tuple" THEN b
              ELSE IF b.t = "tuple"
                   THEN (IF a.t = "str" THEN StrV(b.s) ELSE IntV(b.n))
              ELSE b
        float == v1.t = "float" \/ v2.t = "float"
    IN  CASE op \in {"Lt", "Gt", "GtE", "LtE"} ->
                IF ~Comparable(v1, v2) THEN Raise("TypeError")
                ELSE (CASE op = "Lt" -> Bool(Less(v1, v2))
                        [] op = "Gt" -> Bool(Less(v2, v1))
                        [] op = "GtE" -> Bool(~Less(v1, v2))
                        [] op = "LtE" -> Bool(~Less(v2, v1)))
          [] op = "Eq" ->
                IF float
                THEN (IF IsCloseRaises(v1, v2) THEN Raise("ValueError")
                      ELSE Bool(IsClose(v1, v2)))
                ELSE Bool(PyEq(v1, v2))
          [] op = "NotEq" ->
                IF float
                THEN (IF IsCloseRaises(v1, v2) THEN Raise("ValueError")
                      ELSE Bool(~IsClose(v1, v2)))
                ELSE Bool(~PyEq(v1, v2))
          [] OTHER -> Raise("RuntimeError")

\* Compare.fvalue, the loop from comparator i on; values[1] is the left
\* operand, values[i + 1] the i-th comparator
RECURSIVE Compare_loop(_, _, _, _, _)
Compare_loop(values, ops, i, v1, evaluated) ==
    IF i > Len(ops) THEN [v |-> IntV(1), evaluated |-> evaluated]
    ELSE LET v2 == values[i + 1]
             seen == Append(evaluated, i + 1)
             test == Compare_test(v1, ops[i], v2)
         IN  IF is_missing(v2) THEN [v |-> get_missing("int"), evaluated |-> seen]
             ELSE IF IsRaise(test) THEN [v |-> test, evaluated |-> seen]
             ELSE IF test = Bool(FALSE) THEN [v |-> IntV(0), evaluated |-> seen]
             ELSE Compare_loop(values, ops, i + 1, v2, seen)

\* a Compare that goes on after a failing pair, to find a missing operand
RECURSIVE Compare_loop_NoShortCircuit(_, _, _, _, _, _)
Compare_loop_NoShortCircuit(values, ops, i, v1, failed, evaluated) ==
    IF i > Len(ops)
    THEN [v |-> IF failed THEN IntV(0) ELSE IntV(1), evaluated |-> evaluated]
    ELSE LET v2 == values[i + 1]
             seen == Append(evaluated, i + 1)
             test == Compare_test(v1, ops[i], v2)
         IN  IF is_missing(v2) THEN [v |-> get_missing("int"), evaluated |-> seen]
             ELSE IF IsRaise(test) THEN [v |-> test, evaluated |-> seen]
             ELSE Compare_loop_NoShortCircuit(values, ops, i + 1, v2,
                                              failed \/ test = Bool(FALSE), seen)

Compare_fvalue_NoShortCircuit(values, ops) ==
    IF is_missing(values[1])
    THEN [v |-> get_missing("int"), evaluated |-> <<1>>]
    ELSE Compare_loop_NoShortCircuit(values, ops, 1, values[1], FALSE, <<1>>)

Compare_fvalue(values, ops) ==
    IF is_missing(values[1])
    THEN [v |-> get_missing("int"), evaluated |-> <<1>>]
    ELSE Compare_loop(values, ops, 1, values[1], <<1>>)

(***************************************************************************)
(* BinOp.  An operand is given by its data type and the value it yields.   *)
(* Python arithmetic in the unifying domain: ints are exact, floats are    *)
(* rationals, true division of ints gives a float, % floors, and a         *)
(* division by zero raises ZeroDivisionError.                              *)
(***************************************************************************)
BinOp_data_type(op, ldt, rdt) ==
    IF op = "Pow" THEN "DECIMAL"
    ELSE IF ldt = "TEXT" \/ rdt = "TEXT" THEN "TEXT"
    ELSE IF ldt = "DECIMAL" \/ rdt = "DECIMAL" THEN "DECIMAL"
    ELSE "INTEGER"

\* BinOp.measure_type
BinOp_measure_type(op, ldt, rdt, lmt, rmt) ==
    LET dt == BinOp_data_type(op, ldt, rdt)
    IN  IF op = "Pow" THEN "CONTINUOUS"
        ELSE IF (lmt = "ID" \/ rmt = "ID") /\ dt = "TEXT" THEN "ID"
        ELSE IF (lmt = "CONTINUOUS" \/ rmt = "CONTINUOUS") /\ dt # "TEXT"
             THEN "CONTINUOUS"
        ELSE IF lmt = "NOMINAL" \/ rmt = "NOMINAL" THEN "NOMINAL"
        ELSE "ORDINAL"

RECURSIVE Power(_, _)
Power(b, e) == IF e = 0 THEN 1 ELSE b * Power(b, e - 1)

\* floor(a / b), b # 0
FloorDiv(a, b) == IF b > 0 THEN a \div b ELSE (-a) \div (-b)

\* lv ** rv for an integral exponent e
PyPow(float, n, d, e) ==
    IF e = INT_MISSING
    THEN \* a negative exponent of that size: the float power underflows to 0.0
         (IF n = 0 THEN Raise("ZeroDivisionError")
          ELSE IF Abs(n) = d THEN FloatV(1, 1) ELSE FloatV(0, 1))
    ELSE IF e >= 0
    THEN (IF float THEN FloatV(Power(n, e), Power(d, e)) ELSE IntV(Power(n, e)))
    ELSE IF n = 0 THEN Raise("ZeroDivisionError")
    ELSE FloatV(Power(d, -e), Power(n, -e))

IntArith(op, l, r) ==
    CASE op = "Add" -> IntV(l + r)
      [] op = "Sub" -> IntV(l - r)
      [] op = "Mult" -> IntV(l * r)
      [] op = "Div" -> IF r = 0 THEN Raise("ZeroDivisionError") ELSE FloatV(l, r)
      [] op = "Mod" ->
            IF r = 0 THEN Raise("ZeroDivisionError") ELSE IntV(l - r * FloorDiv(l, r))
      [] op \in {"Pow", "BitXor"} -> PyPow(FALSE, l, 1, r)

\* the floats of the model have integral exponents (r.d = 1) where they are powers
FloatArith(op, l, r) ==
    CASE op = "Add" -> FloatV(l.n * r.d + r.n * l.d, l.d * r.d)
      [] op = "Sub" -> FloatV(l.n * r.d - r.n * l.d, l.d * r.d)
      [] op = "Mult" -> FloatV(l.n * r.n, l.d * r.d)
      [] op = "Div" ->
            IF r.n = 0 THEN Raise("ZeroDivisionError") ELSE FloatV(l.n * r.d, l.d * r.n)
      [] op = "Mod" ->
            IF r.n = 0 THEN Raise("ZeroDivisionError")
            ELSE LET q == FloorDiv(l.n * r.d, l.d * r.n)
                 IN  FloatV(l.n * r.d - q * r.n * l.d, l.d * r.d)
      [] op \in {"Pow", "BitXor"} /\ r.d = 1 -> PyPow(TRUE, l.n, l.d, r.n)

\* text + text concatenates; no other operator of the node is defined on two texts
StrArith(op, l, r) ==
    IF op = "Add" THEN StrV(l.s \o r.s) ELSE Raise("TypeError")

\* float arithmetic on a nan gives nan, but x ** 0.0 and 1.0 ** x are 1.0
NaNArith(op, lv, rv) ==
    IF op \in {"Pow", "BitXor"} /\ (rv = FloatV(0, 1) \/ lv = FloatV(1, 1))
    THEN FloatV(1, 1)
    ELSE NaN

Arith(ul_type, op, lv, rv) ==
    CASE ul_type = "float" /\ (lv = NaN \/ rv = NaN) -> NaNArith(op, lv, rv)
      [] ul_type = "float" -> FloatArith(op, lv, rv)
      [] ul_type = "str" -> StrArith(op, lv, rv)
      [] OTHER -> IntArith(op, lv.n, rv.n)

BinOps == {"Add", "Sub", "Mult", "Div", "Mod", "Pow", "BitXor"}

\* ``if is_missing(lv) or is_missing(rv)``
BinOp_operand_missing_LeftOnly(lv, rv) == is_missing(lv)
BinOp_operand_missing(lv, rv) == is_missing(lv) \/ is_missing(rv)

\* the branch ``if ul_type is str and isinstance(op, ast.Add): pass``
BinOp_skips_missing_check(ul_type, op) == ul_type = "str" /\ op = "Add"

BinOp_fvalue(op, left, right) ==
    LET dt == BinOp_data_type(op, left.data_type, right.data_type)
        ul_type == IF dt = "DECIMAL" THEN "float"
                   ELSE IF dt = "TEXT" THEN "str" ELSE "int"
        lv == convert(left.value, ul_type)
        rv == convert(right.value, ul_type)
        raw == Arith(ul_type, op, lv, rv)
        v == IF ~BinOp_skips_missing_check(ul_type, op) /\ BinOp_operand_missing(lv, rv)
             THEN get_missing("int")
             ELSE IF op \notin BinOps THEN get_missing("")
             ELSE IF op = "Div" /\ raw = Raise("ZeroDivisionError") THEN get_missing("")
             ELSE raw
    IN  [v |-> v, evaluated |-> <<1, 2>>]

(***************************************************************************)
(* Call: type inference and level discovery.  An argument node is given by *)
(* what the call asks of it: its data type, its measure type, whether it   *)
(* has levels and the levels it reports.                                   *)
(***************************************************************************)
Arg(dt, mt, has, levels) ==
    [data_type |-> dt, measure_type |-> mt, has_levels |-> has, levels |-> levels]

\* the loop ``for t in list(d_types)`` from position i on, dt so far
RECURSIVE ScanDTypes_NoBreak(_, _, _)
ScanDTypes_NoBreak(d_types, i, dt) ==
    IF i > Len(d_types) THEN dt
    ELSE IF d_types[i] = "DECIMAL" THEN ScanDTypes_NoBreak(d_types, i + 1, "DECIMAL")
    ELSE IF d_types[i] = "TEXT" THEN ScanDTypes_NoBreak(d_types, i + 1, "TEXT")
    ELSE ScanDTypes_NoBreak(d_types, i + 1, dt)

RECURSIVE ScanDTypes(_, _, _)
ScanDTypes(d_types, i, dt) ==
    IF i > Len(d_types) THEN dt
    ELSE IF d_types[i] = "DECIMAL" THEN ScanDTypes(d_types, i + 1, "DECIMAL")
    ELSE IF d_types[i] = "TEXT" THEN "TEXT"
    ELSE ScanDTypes(d_types, i + 1, dt)

\* Call._determine_d_m_types: <<d_type, m_type>>
Call_determine_d_m_types(function, args) ==
    LET func_meta == meta(function)
        n == Len(func_meta.returns)
        deriving == {i \in 1 .. n : func_meta.returns[i] < Len(args)}
        d_types == [i \in 1 .. n |->
                       IF i \in deriving THEN args[func_meta.returns[i] + 1].data_type
                       ELSE "None"]
        m_types == {args[func_meta.returns[i] + 1].measure_type : i \in deriving}
        dt == ScanDTypes(d_types, 1, "INTEGER")
        mt == IF dt = "DECIMAL" THEN "CONTINUOUS"
              ELSE IF "ID" \in m_types THEN "ID"
              ELSE IF "ORDINAL" \in m_types THEN "ORDINAL"
              ELSE "NOMINAL"
    IN  IF Len(args) = 0 \/ n = 0
        THEN <<func_meta.d_type, func_meta.m_type>>
        ELSE <<dt, mt>>

(***************************************************************************)
(* The type properties over the tree.  Reading a call's data_type or       *)
(* measure_type determines both on first use and stores them; it reads     *)
(* both properties of each type-deriving argument, in the order of the     *)
(* meta's returns, and of no other argument.                               *)
(***************************************************************************)
Untyped == Arg("None", "None", FALSE, <<>>)

RECURSIVE node_types(_, _), DerivingTypes(_, _, _, _)
\* the loop ``for i in range(len(func_meta.returns))`` from position i on
DerivingTypes(h, self, i, args) ==
    LET returns == meta(h[self].function).returns
    IN  IF i > Len(returns) THEN [heap |-> h, args |-> args]
        ELSE LET arg_i == returns[i]
             IN  IF arg_i < Len(h[self].args)
                 THEN LET r == node_types(h, h[self].args[arg_i + 1])
                      IN  DerivingTypes(r.heap, self, i + 1,
                              [args EXCEPT ![arg_i + 1] =
                                  Arg(r.types[1], r.types[2], FALSE, <<>>)])
                 ELSE DerivingTypes(h, self, i + 1, args)

\* <<node.data_type, node.measure_type>> and the heap after reading them
node_types(h, self) ==
    LET node == h[self]
    IN  CASE node.kind = "Column" -> [heap |-> h, types |-> <<node.d_type, node.m_type>>]
          [] node.kind = "Num" ->
                [heap |-> h,
                 types |-> IF node.n.t = "int" THEN <<"INTEGER", "ORDINAL">>
                           ELSE <<"DECIMAL", "CONTINUOUS">>]
          [] node.kind = "UnaryOp" ->
                LET r == node_types(h, node.args[1])
                IN  [heap |-> r.heap,
                     types |-> IF node.op = "UAdd" /\ r.types[1] = "TEXT"
                               THEN <<"DECIMAL", "CONTINUOUS">>
                               ELSE IF node.op = "Not" THEN <<"INTEGER", "NOMINAL">>
                               ELSE r.types]
          [] node.kind = "Call" ->
                IF node.d_type # "None"
                THEN [heap |-> h, types |-> <<node.d_type, node.m_type>>]
                ELSE LET r == DerivingTypes(h, self, 1,
                                            [i \in 1 .. Len(node.args) |-> Untyped])
                         types == Call_determine_d_m_types(node.function, r.args)
                     IN  [heap |-> [r.heap EXCEPT ![self].d_type = types[1],
                                                  ![self].m_type = types[2]],
                          types |-> types]

\* level_use, the OrderedDict: its keys in insertion order
RECURSIVE AddKeys(_, _)
AddKeys(keys, levels) ==
    IF levels = <<>> THEN keys
    ELSE AddKeys(IF Head(levels)[2] \in SeqRange(keys) THEN keys
                 ELSE Append(keys, Head(levels)[2]),
                 Tail(levels))

\* the loop over arg_level_indices from position i on
RECURSIVE CollectKeys(_, _, _, _)
CollectKeys(arg_level_indices, args, i, keys) ==
    IF i > Len(arg_level_indices) THEN keys
    ELSE LET arg_i == arg_level_indices[i]
         IN  IF arg_i < Len(args) /\ args[arg_i + 1].has_levels
             THEN CollectKeys(arg_level_indices, args, i + 1,
                              AddKeys(keys, args[arg_i + 1].levels))
             ELSE CollectKeys(arg_level_indices, args, i + 1, keys)

\* level_use[k] > 0 after the scan of the column
LevelUsed(k, column) ==
    \E r \in 1 .. Len(column) :
        ~is_missing(column[r]) /\ convert(column[r], "str").s = k

RECURSIVE KeepUsed(_, _)
KeepUsed(keys, column) ==
    IF keys = <<>> THEN <<>>
    ELSE (IF LevelUsed(Head(keys), column) THEN <<Head(keys)>> ELSE <<>>)
         \o KeepUsed(Tail(keys), column)

\* the first row (from 1) at which the column takes the label k
FirstUse(k, column) ==
    CHOOSE r \in 1 .. Len(column) :
        /\ ~is_missing(column[r]) /\ convert(column[r], "str").s = k
        /\ \A q \in 1 .. (r - 1) :
              is_missing(column[q]) \/ convert(column[q], "str").s # k

\* ``levels = list(filter(lambda k: level_use[k] > 0, level_use))``
Levels_Kept(keys, column) == KeepUsed(keys, column)

\* Call.get_levels; column is self.fvalues(row_count, False)
Call_get_levels(function, args, column) ==
    LET arg_level_indices == meta(function).arg_level_indices
        types == Call_determine_d_m_types(function, args)
        levels == Levels_Kept(CollectKeys(arg_level_indices, args, 1, <<>>), column)
    IN  IF Len(arg_level_indices) = 0 THEN <<>>
        ELSE IF Len(args) = 0 THEN <<>>
        ELSE IF types[1] # "TEXT" THEN <<>>
        ELSE IF types[2] = "ID" THEN <<>>
        ELSE [i \in 1 .. Len(levels) |-> <<i - 1, levels[i]>>]

(***************************************************************************)
(* SpecEval: one operator node, with the values its operands yield at the  *)
(* row, is evaluated once.                                                 *)
(***************************************************************************)
\* comparators of a comparator chain
MaxComparators == 2

BoolValues ==
    {IntV(0), IntV(1), IntV(INT_MISSING), NaN, FloatV(0, 1), StrV(""), StrV("a"),
     TupleV(0, "a"), TupleV(INT_MISSING, "")}

CompareValues ==
    {IntV(1), IntV(2), IntV(INT_MISSING), NaN, StrV("a"), TupleV(2, "a")}

CompareOps == {"Lt", "Gt", "GtE", "LtE", "Eq", "NotEq"}

Operand(dt, v) == [data_type |-> dt, value |-> v]

BinOperands ==
    {Operand("INTEGER", IntV(0)), Operand("INTEGER", IntV(2)),
     Operand("INTEGER", IntV(-1)), Operand("INTEGER", IntV(INT_MISSING)),
     Operand("DECIMAL", FloatV(0, 1)), Operand("DECIMAL", FloatV(2, 1)),
     Operand("DECIMAL", FloatV(-1, 1)), Operand("DECIMAL", NaN),
     Operand("TEXT", StrV("a")), Operand("TEXT", StrV("2")), Operand("TEXT", StrV(""))}

SeqsUpTo(S, lo, hi) == UNION {[1 .. k -> S] : k \in lo .. hi}

Expr(kind, op, ops, values, types) ==
    [kind |-> kind, op |-> op, ops |-> ops, values |-> values, types |-> types,
     function |-> "", args |-> <<>>]

NoExpr == Expr("none", "", <<>>, <<>>, <<>>)
Pending ==
    [done |-> FALSE, v |-> None, evaluated |-> <<>>, levels |-> <<>>, types |-> <<>>]
Done(r) == [Pending EXCEPT !.done = TRUE, !.v = r.v, !.evaluated = r.evaluated]

DataTypes == {"INTEGER", "DECIMAL", "TEXT"}
MeasureTypes == {"NOMINAL", "ORDINAL", "CONTINUOUS", "ID"}

\* a binary node over two operands of any data type and measure type
BinOpTypeExprs ==
    {Expr("BinOp_type", op, <<>>, <<>>, <<ldt, rdt, lmt, rmt>>) :
        op \in BinOps, ldt \in DataTypes, rdt \in DataTypes,
        lmt \in MeasureTypes, rmt \in MeasureTypes}

BoolOpExprs ==
    {Expr("BoolOp", op, <<>>, values, <<>>) :
        op \in {"And", "Or"}, values \in SeqsUpTo(BoolValues, 1, MaxOperands)}

BinOpExprs ==
    {Expr("BinOp", op, <<>>, <<l.value, r.value>>, <<l.data_type, r.data_type>>) :
        op \in BinOps \cup {"FloorDiv"}, l \in BinOperands, r \in BinOperands}

\* the arguments of a call to IF: a comparison, then two of these
CompareArg == Arg("INTEGER", "NOMINAL", TRUE, <<<<1, "true">>, <<0, "false">>>>)

LevelArgs ==
    {Arg("TEXT", "NOMINAL", TRUE, <<<<0, "a">>>>),
     Arg("TEXT", "NOMINAL", TRUE, <<<<0, "b">>>>),
     Arg("TEXT", "NOMINAL", TRUE, <<<<0, "a">>, <<1, "b">>>>),
     Arg("TEXT", "ID", TRUE, <<>>),
     Arg("INTEGER", "ORDINAL", FALSE, <<>>)}

\* what a row of the call's column may hold
LevelValues == {StrV("a"), StrV("b"), StrV(""), IntV(2), IntV(INT_MISSING)}

LevelsExprs ==
    {[Expr("get_levels", "", <<>>, column, <<>>)
         EXCEPT !.function = "IF", !.args = <<CompareArg, x, y>>] :
        x \in LevelArgs, y \in LevelArgs, column \in [1 .. RowCount -> LevelValues]}

EvalInit ==
    /\ \/ expr \in BoolOpExprs
       \/ \E k \in 1 .. MaxComparators :
             \E ops \in [1 .. k -> CompareOps], values \in [1 .. (k + 1) -> CompareValues] :
                expr = Expr("Compare", "", ops, values, <<>>)
       \/ expr \in BinOpExprs
       \/ expr \in LevelsExprs
       \/ expr \in BinOpTypeExprs
    /\ outcome = Pending

EvalBoolOp ==
    /\ expr.kind = "BoolOp" /\ ~outcome.done
    /\ outcome' = Done(BoolOp_fvalue(expr.op, expr.values))
    /\ UNCHANGED <<expr, graphVars>>

EvalCompare ==
    /\ expr.kind = "Compare" /\ ~outcome.done
    /\ outcome' = Done(Compare_fvalue(expr.values, expr.ops))
    /\ UNCHANGED <<expr, graphVars>>

EvalBinOp ==
    /\ expr.kind = "BinOp" /\ ~outcome.done
    /\ outcome' = Done(BinOp_fvalue(expr.op, Operand(expr.types[1], expr.values[1]),
                                    Operand(expr.types[2], expr.values[2])))
    /\ UNCHANGED <<expr, graphVars>>

(***************************************************************************)
(* Spec: a formula is compiled, then evaluated at any node, row and filter *)
(* flag, invalidated at any node, and at last released from its root.      *)
(***************************************************************************)
\* what a registry function may return
Returns == {None, FloatV(1, 1)}

\* the nodes of the tree under self, self among them
RECURSIVE Subtree(_)
Subtree(self) ==
    {self} \cup UNION {Subtree(heap[self].args[i]) : i \in 1 .. Len(heap[self].args)}

\* what each call returns if invoked; None stands for the calls that cannot be
\* invoked by an evaluation of self (outside its tree, or holding a memo)
RetChoices(self) ==
    {ret \in [CallNodes -> Returns] :
        \A k \in CallNodes :
            (k \notin Subtree(self) \/ heap[k].cached_value # None) => ret[k] = None}

Machine == [heap |-> heap, invoked |-> invoked, evals |-> evals, reads |-> {}]

Init ==
    \E f \in 1 .. Len(Formulas) :
        LET b == Build(<<>>, Formulas[f])
        IN  /\ heap = b.heap
            /\ root = b.id
            /\ invoked = [k \in 1 .. Len(b.heap) |-> 0]
            /\ evals = {}
            /\ reads = {}
            /\ result = None
            /\ error = "none"
            /\ released = {}
            /\ last = Op("init", b.id, 0)
            /\ expr = NoExpr
            /\ outcome = Pending

\* node.fvalue(index, row_count, filt)
Evaluate ==
    /\ released = {} /\ error = "none"
    /\ \E self \in CallNodes \cup {root}, index \in Rows, filt \in BOOLEAN :
       \E ret \in RetChoices(self) :
          LET r == fvalue(Machine, self, index, filt, ret)
          IN  /\ heap' = r.m.heap
              /\ invoked' = r.m.invoked
              /\ evals' = r.m.evals
              /\ reads' = r.m.reads
              /\ result' = r.v
              /\ last' = Op("fvalue", self, index)
    /\ UNCHANGED <<root, error, released, evalVars>>

\* node.set_needs_recalc()
Invalidate ==
    /\ released = {} /\ error = "none"
    /\ \E self \in Nodes :
          LET m == set_needs_recalc(Machine, self)
          IN  /\ heap' = m.heap
              /\ invoked' = m.invoked
              /\ evals' = m.evals
              /\ last' = Op("set_needs_recalc", self, 0)
    /\ UNCHANGED <<root, reads, result, error, released, evalVars>>

\* root._release()
Release ==
    /\ released = {} /\ error = "none"
    /\ LET r == release([heap |-> heap, error |-> "none", released |-> {}], root)
       IN  /\ heap' = r.heap
           /\ error' = r.error
           /\ released' = r.released
           /\ last' = Op("release", root, 0)
    /\ UNCHANGED <<root, invoked, evals, reads, result, evalVars>>

vars == <<graphVars, evalVars>>

Next == Evaluate \/ Invalidate \/ Release

Spec == Init /\ [][Next]_vars

(***************************************************************************)
(* SpecTypes: a call over arguments of every type is compiled; the type    *)
(* properties of its nodes are read and nodes are invalidated.             *)
(***************************************************************************)
\* the arguments a type-deriving position may hold
TypeOperands ==
    {TypedColumn("INTEGER", "ORDINAL"), TypedColumn("INTEGER", "NOMINAL"),
     TypedColumn("DECIMAL", "CONTINUOUS"), TypedColumn("TEXT", "NOMINAL"),
     TypedColumn("TEXT", "ID"), <<"Num", IntV(1)>>, <<"Num", FloatV(3, 2)>>,
     <<"UnaryOp", "UAdd", TypedColumn("TEXT", "NOMINAL")>>,
     <<"Call", "VMEAN", <<TypedColumn("INTEGER", "ORDINAL")>> >>,
     <<"Call", "OFFSET", <<TypedColumn("TEXT", "NOMINAL"), <<"Num", IntV(1)>> >> >>}

TypeFormulas ==
    {<<"Call", "IF", <<TypedColumn("INTEGER", "NOMINAL"), x, y>> >> :
        x \in TypeOperands, y \in TypeOperands}
    \cup {<<"Call", "IF", <<TypedColumn("INTEGER", "NOMINAL"), x>> >> : x \in TypeOperands}
    \cup {<<"Call", "IF", <<>> >>}
    \cup {<<"Call", "Z", <<>> >>, <<"Call", "Z", <<TypedColumn("DECIMAL", "CONTINUOUS")>> >>,
          <<"Call", "Z", << <<"UnaryOp", "USub", TypedColumn("INTEGER", "ORDINAL")>> >> >>}

InitTypes ==
    \E e \in TypeFormulas :
        LET b == Build(<<>>, e)
        IN  /\ heap = b.heap
            /\ root = b.id
            /\ invoked = [k \in 1 .. Len(b.heap) |-> 0]
            /\ evals = {}
            /\ reads = {}
            /\ result = None
            /\ error = "none"
            /\ released = {}
            /\ last = Op("init", b.id, 0)
            /\ expr = NoExpr
            /\ outcome = Pending

\* node.data_type
ReadDataType ==
    /\ \E self \in Nodes :
          LET r == node_types(heap, self)
          IN  /\ heap' = r.heap
              /\ result' = StrV(r.types[1])
              /\ last' = Op("data_type", self, 0)
    /\ UNCHANGED <<root, invoked, evals, reads, error, released, evalVars>>

\* node.measure_type
ReadMeasureType ==
    /\ \E self \in Nodes :
          LET r == node_types(heap, self)
          IN  /\ heap' = r.heap
              /\ result' = StrV(r.types[2])
              /\ last' = Op("measure_type", self, 0)
    /\ UNCHANGED <<root, invoked, evals, reads, error, released, evalVars>>

NextTypes == ReadDataType \/ ReadMeasureType \/ Invalidate

SpecTypes == InitTypes /\ [][NextTypes]_vars

\* node.get_levels(row_count)
GetLevels ==
    /\ expr.kind = "get_levels" /\ ~outcome.done
    /\ outcome' = [Pending EXCEPT !.done = TRUE,
                                  !.levels = Call_get_levels(expr.function, expr.args,
                                                             expr.values)]
    /\ UNCHANGED <<expr, graphVars>>

\* node.data_type and node.measure_type of a binary node
TypeBinOp ==
    /\ expr.kind = "BinOp_type" /\ ~outcome.done
    /\ outcome' = [Pending EXCEPT
                      !.done = TRUE,
                      !.types = <<BinOp_data_type(expr.op, expr.types[1], expr.types[2]),
                                  BinOp_measure_type(expr.op, expr.types[1], expr.types[2],
                                                     expr.types[3], expr.types[4])>>]
    /\ UNCHANGED <<expr, graphVars>>

\* SpecEval leaves the tree empty
InitEval ==
    /\ heap = <<>> /\ root = 0 /\ invoked = <<>> /\ evals = {} /\ reads = {}
    /\ result = None /\ error = "none" /\ released = {} /\ last = Op("init", 0, 0)
    /\ EvalInit

NextEval == EvalBoolOp \/ EvalCompare \/ EvalBinOp \/ GetLevels \/ TypeBinOp

SpecEval == InitEval /\ [][NextEval]_vars

(***************************************************************************)
(* Claims checked under Spec.                                              *)
(***************************************************************************)
IsColumnWise(k) == heap[k].kind = "Call" /\ meta(heap[k].function).is_column_wise

\* the nodes reachable from self by parent links, self among them
RECURSIVE ParentClosure(_)
ParentClosure(S) ==
    LET T == S \cup UNION {SeqRange(heap[k].node_parents) : k \in S}
    IN  IF T = S THEN S ELSE ParentClosure(T)

Ancestors(self) == ParentClosure({self})

\* the calls Call.__init__ synthesized for the call self: they were allocated after it
SynthesizedOf(self) ==
    IF heap[self].kind = "Call"
    THEN {k \in SeqRange(heap[self].args) : k > self}
    ELSE {}

\* C1: a whole-column call evaluated at least once since its last invalidation
\* has invoked its registry function exactly once, whatever the function returned.
C1_InvokedExactlyOnce ==
    \A k \in CallNodes : (IsColumnWise(k) /\ k \in evals) => invoked[k] = 1

\* C2 (state part): right after set_needs_recalc on a node, every call node
\* reachable from it by parent links, the node itself included, has no memo
\* and reports needs_recalc.
C2_AncestorsCleared ==
    last.op = "set_needs_recalc" =>
        \A k \in Ancestors(last.self) \cap CallNodes :
            /\ heap[k].cached_value = None
            /\ needs_recalc(heap[k])
            /\ invoked[k] = 0

\* C2 (step part): the next evaluation of a whole-column ancestor invokes its
\* registry function again.
C2_NextEvaluationRecomputes ==
    (/\ last.op = "set_needs_recalc"
     /\ last'.op = "fvalue"
     /\ last'.self \in Ancestors(last.self)
     /\ IsColumnWise(last'.self)) => invoked'[last'.self] = 1

\* C2: after set_needs_recalc on any node every call ancestor at any depth has
\* its memo cleared, and the next evaluation of a whole-column ancestor
\* re-invokes its registry function.
C2_InvalidationClearsEveryAncestor ==
    []C2_AncestorsCleared /\ [][C2_NextEvaluationRecomputes]_vars

\* C2 witness: a leaf was invalidated under a whole-column call whose argument
\* is itself a whole-column call (an ancestor two calls up).
C2_Witness ==
    /\ last.op = "set_needs_recalc"
    /\ heap[last.self].kind = "Column"
    /\ \E k \in Ancestors(last.self) :
          /\ IsColumnWise(k)
          /\ IsColumnWise(heap[k].args[1])
          /\ heap[k].args[1] \in Ancestors(last.self)

\* C3: releasing an outer call built with synthesized sub-function calls raises
\* nothing, releases every synthesized call and leaves no node listing the outer
\* call or a synthesized call among its parents.
C3_ReleaseLeavesNoDanglingParents ==
    (last.op = "release" /\ SynthesizedOf(root) # {}) =>
        /\ error = "none"
        /\ SynthesizedOf(root) \subseteq released
        /\ \A k \in Nodes :
              SeqRange(heap[k].node_parents) \cap ({root} \cup SynthesizedOf(root)) = {}

\* C10: OFFSET(arg, k) at row i is NaN when i < k; otherwise it is arg at row
\* i - k read with the filter off, and the row it reads lies in 0..RowCount-1.
C10_OffsetReadsInsideTheColumn ==
    (last.op = "fvalue" /\ heap[last.self].function = "OFFSET") =>
        LET arg == heap[last.self].args[1]
            k == heap[heap[last.self].args[2]].n.n
            i == last.index
        IN  /\ i < k => result = NaN /\ reads = {}
            /\ i >= k => result = ColumnValue(i - k, FALSE)
                         /\ reads = {<<arg, i - k, FALSE>>}
            /\ \A rd \in reads : rd[2] \in Rows

(***************************************************************************)
(* Claims checked under SpecEval.                                          *)
(***************************************************************************)
Evaluated(kind) == expr.kind = kind /\ outcome.done

\* 1 .. k as the sequence <<1, ..., k>>
UpTo(k) == [i \in 1 .. k |-> i]

Least(S) == CHOOSE i \in S : \A j \in S : i <= j

\* the test of the adjacent pair that ends at position i of a chain (i > 1)
PairTest(i) == Compare_test(expr.values[i - 1], expr.ops[i - 1], expr.values[i])

\* no adjacent pair of the chain is a comparison Python refuses (a number
\* against a text): every pair passes or fails
EveryPairIsDecided == \A i \in 2 .. Len(expr.values) : ~IsRaise(PairTest(i))

AnyMissing == \E i \in 1 .. Len(expr.values) : is_missing(expr.values[i])

\* the positions at which the scan of a chain ends: a missing operand, or an
\* operand whose test against its predecessor does not pass
CompareStops ==
    {i \in 1 .. Len(expr.values) :
        is_missing(expr.values[i]) \/ (i > 1 /\ PairTest(i) # Bool(TRUE))}

\* C4 as claimed: a chain with a missing operand anywhere is missing; with none
\* it is 1 iff every adjacent pair passes and 0 otherwise.
C4_MissingAnywhereIsMissing ==
    (Evaluated("Compare") /\ EveryPairIsDecided) =>
        IF AnyMissing THEN is_missing(outcome.v)
        ELSE outcome.v = IF CompareStops = {} THEN IntV(1) ELSE IntV(0)

\* C4 as amended: the chain is decided by the first operand, left to right,
\* that is missing or fails the test against its predecessor: missing if that
\* operand is missing, 0 if it is not, 1 if there is no such operand.
C4_FirstMissingOrFailingDecides ==
    (Evaluated("Compare") /\ EveryPairIsDecided) =>
        outcome.v = IF CompareStops = {} THEN IntV(1)
                    ELSE IF is_missing(expr.values[Least(CompareStops)])
                         THEN get_missing("int")
                         ELSE IntV(0)

\* C4 witness: a pair fails, a later operand is missing, and the chain is 0.
C4_Witness ==
    /\ Evaluated("Compare") /\ EveryPairIsDecided
    /\ Len(expr.values) = 3
    /\ ~is_missing(expr.values[1]) /\ ~is_missing(expr.values[2])
    /\ PairTest(2) = Bool(FALSE)
    /\ is_missing(expr.values[3])
    /\ outcome.v = IntV(0)

\* the operands of the binary node in its unifying domain
BinDomain ==
    LET dt == BinOp_data_type(expr.op, expr.types[1], expr.types[2])
    IN  IF dt = "DECIMAL" THEN "float" ELSE IF dt = "TEXT" THEN "str" ELSE "int"
BinLeft == convert(expr.values[1], BinDomain)
BinRight == convert(expr.values[2], BinDomain)

\* C6: a binary node over numbers never raises ZeroDivisionError: a division
\* by zero gives the missing sentinel, and so do a modulo by zero and a zero
\* raised to a negative power.
C6_ZeroDivisionIsAbsorbed ==
    (/\ Evaluated("BinOp") /\ BinDomain \in {"int", "float"}
     /\ ~is_missing(BinLeft) /\ ~is_missing(BinRight)) =>
        /\ outcome.v # Raise("ZeroDivisionError")
        /\ (expr.op = "Div" /\ BinRight.n = 0) => is_missing(outcome.v)

\* C7: if either operand is missing in the unifying domain the node's value
\* is missing, for every operator and domain, except "+" on text, which
\* concatenates the two converted texts unchecked.
C7_MissingOperandGivesMissing ==
    Evaluated("BinOp") =>
        /\ (/\ is_missing(BinLeft) \/ is_missing(BinRight)
            /\ ~(BinDomain = "str" /\ expr.op = "Add")) =>
                 is_missing(outcome.v) /\ outcome.v = get_missing("int")
        /\ (BinDomain = "str" /\ expr.op = "Add") =>
                 outcome.v = StrV(BinLeft.s \o BinRight.s)

\* C7 witness: a decimal node whose right operand alone is missing.
C7_Witness ==
    /\ Evaluated("BinOp") /\ BinDomain = "float" /\ expr.op = "Mult"
    /\ ~is_missing(BinLeft) /\ BinRight = NaN
    /\ outcome.v = IntV(INT_MISSING)

\* the operand at which a chain short-circuits, if any
ShortCircuits ==
    CASE expr.kind = "BoolOp" /\ expr.op = "And" ->
            {i \in 1 .. Len(expr.values) :
                ~is_missing(expr.values[i]) /\ ~Truthy(Untuple(expr.values[i]))}
      [] expr.kind = "BoolOp" /\ expr.op = "Or" ->
            {i \in 1 .. Len(expr.values) :
                ~is_missing(expr.values[i]) /\ Truthy(Untuple(expr.values[i]))}
      [] expr.kind = "Compare" -> CompareStops
      [] OTHER -> {}

\* C8: a boolean or comparator chain evaluates its operands left to right,
\* each once, up to and including the operand at which it short-circuits, and
\* none after it.
C8_LeftToRightUpToShortCircuit ==
    (Evaluated("BoolOp") \/ Evaluated("Compare")) =>
        outcome.evaluated = UpTo(IF ShortCircuits = {} THEN Len(expr.values)
                                 ELSE Least(ShortCircuits))

\* C8 witness: an AND whose first operand is missing and whose second is
\* falsy left its third operand unevaluated.
C8_Witness ==
    /\ Evaluated("BoolOp") /\ expr.op = "And" /\ Len(expr.values) = 3
    /\ is_missing(expr.values[1])
    /\ expr.values[2] = IntV(0)
    /\ outcome.evaluated = <<1, 2>>

MissingAt == {i \in 1 .. Len(expr.values) : is_missing(expr.values[i])}
Greatest(S) == CHOOSE i \in S : \A j \in S : j <= i

\* C9: AND is 0 iff some operand is non-missing and falsy; otherwise it is the
\* last missing operand, or 1 if none is missing.  OR is 1 iff some operand is
\* non-missing and truthy; otherwise the last missing operand, or 0.
C9_BoolOpValue ==
    Evaluated("BoolOp") =>
        outcome.v = IF ShortCircuits # {}
                    THEN (IF expr.op = "And" THEN IntV(0) ELSE IntV(1))
                    ELSE IF MissingAt # {} THEN expr.values[Greatest(MissingAt)]
                    ELSE (IF expr.op = "And" THEN IntV(1) ELSE IntV(0))

\* C9 witness: an AND met two different missing values and no falsy operand;
\* it returned the later one.
C9_Witness ==
    /\ Evaluated("BoolOp") /\ expr.op = "And" /\ Len(expr.values) = 3
    /\ expr.values[1] = NaN
    /\ expr.values[2] = IntV(INT_MISSING)
    /\ Truthy(expr.values[3]) /\ ~is_missing(expr.values[3])
    /\ outcome.v = IntV(INT_MISSING)

\* the candidate labels of the call, in the order they were collected
Candidates == CollectKeys(meta(expr.function).arg_level_indices, expr.args, 1, <<>>)

LevelRelevant ==
    /\ Evaluated("get_levels")
    /\ Len(meta(expr.function).arg_level_indices) > 0 /\ Len(expr.args) > 0
    /\ Call_determine_d_m_types(expr.function, expr.args)[1] = "TEXT"
    /\ Call_determine_d_m_types(expr.function, expr.args)[2] # "ID"

Labels(levels) == [i \in 1 .. Len(levels) |-> levels[i][2]]

\* the levels are exactly the candidates used in the column, coded 0..n-1
ExactlyTheUsedCandidates ==
    /\ \A i \in 1 .. Len(outcome.levels) : outcome.levels[i][1] = i - 1
    /\ \A i, j \in 1 .. Len(outcome.levels) :
          i # j => outcome.levels[i][2] # outcome.levels[j][2]
    /\ SeqRange(Labels(outcome.levels)) =
          {k \in SeqRange(Candidates) : LevelUsed(k, expr.values)}

\* C5 as claimed: the levels are the candidate labels used in the column,
\* coded 0..n-1, in the order of the rows of their first use.
C5_LevelsOrderedByFirstUse ==
    LevelRelevant =>
        /\ ExactlyTheUsedCandidates
        /\ \A i, j \in 1 .. Len(outcome.levels) :
              i < j => FirstUse(outcome.levels[i][2], expr.values)
                         < FirstUse(outcome.levels[j][2], expr.values)

\* the place of a candidate label in the collection order
CandidateRank(k) == CHOOSE i \in 1 .. Len(Candidates) : Candidates[i] = k

\* What get_levels does instead: the levels are the candidate labels used in
\* the column, coded 0..n-1, in the order in which the candidates were
\* collected from the level-source arguments.
C5_LevelsOrderedByCollection ==
    LevelRelevant =>
        /\ ExactlyTheUsedCandidates
        /\ \A i, j \in 1 .. Len(outcome.levels) :
              i < j => CandidateRank(outcome.levels[i][2])
                         < CandidateRank(outcome.levels[j][2])

\* the column uses the second candidate before the first, and the levels come
\* out in collection order
C5_CollectionOrderShows ==
    /\ LevelRelevant
    /\ Len(outcome.levels) = 2
    /\ FirstUse(outcome.levels[2][2], expr.values)
         < FirstUse(outcome.levels[1][2], expr.values)

\* C11: a binary node whose operator is power, written ** or ^, has data type
\* decimal and measure type continuous whatever the types of its operands.
C11_PowerIsDecimalContinuous ==
    (Evaluated("BinOp_type") /\ expr.op \in {"Pow", "BitXor"}) =>
        outcome.types = <<"DECIMAL", "CONTINUOUS">>

\* what holds of the ** symbol alone
C11_PowSymbolIsDecimalContinuous ==
    (Evaluated("BinOp_type") /\ expr.op = "Pow") =>
        outcome.types = <<"DECIMAL", "CONTINUOUS">>

\* the data type of a node, whatever has been memoized on the way
TypeOf(k) == node_types(heap, k).types[1]

\* the arguments of call k at its type-deriving positions
DerivingArgs(k) ==
    LET returns == meta(heap[k].function).returns
    IN  {heap[k].args[returns[i] + 1] :
            i \in {j \in 1 .. Len(returns) : returns[j] < Len(heap[k].args)}}

TypeDeriving(k) ==
    /\ heap[k].kind = "Call" /\ Len(heap[k].args) > 0
    /\ Len(meta(heap[k].function).returns) > 0

\* a determined data type is text if any deriving argument is text, else
\* decimal if any is decimal, else integer
C12_TextWins ==
    \A k \in Nodes :
        (TypeDeriving(k) /\ heap[k].d_type # "None") =>
            heap[k].d_type =
                IF \E a \in DerivingArgs(k) : TypeOf(a) = "TEXT" THEN "TEXT"
                ELSE IF \E a \in DerivingArgs(k) : TypeOf(a) = "DECIMAL" THEN "DECIMAL"
                ELSE "INTEGER"

\* the types of a call are read back as stored, and a stored type stays, over
\* set_needs_recalc too
C12_TypesStay ==
    \A k \in Nodes :
        (heap[k].kind = "Call" /\ heap[k].d_type # "None") =>
            /\ heap'[k].d_type = heap[k].d_type
            /\ heap'[k].m_type = heap[k].m_type

\* C12: the inferred data type of a call with arguments and type-deriving
\* positions is text if any type-deriving argument is text, in whatever order
\* text and decimal arguments come, otherwise decimal if any is decimal,
\* otherwise integer; once determined, the data type and the measure type are
\* stored and no later read or set_needs_recalc changes them.
C12_TextWinsAndTypesAreMemoized == []C12_TextWins /\ [][C12_TypesStay]_vars

\* C12 witness: the root has a decimal deriving argument before a text one,
\* its type was determined as text, and set_needs_recalc has just run on it.
C12_Witness ==
    /\ TypeDeriving(root) /\ Len(heap[root].args) = 3
    /\ TypeOf(heap[root].args[2]) = "DECIMAL" /\ TypeOf(heap[root].args[3]) = "TEXT"
    /\ heap[root].d_type = "TEXT"
    /\ last = Op("set_needs_recalc", root, 0)

\* how often x occurs in the list q
Count(q, x) == Cardinality({i \in 1 .. Len(q) : q[i] = x})

\* the parameter positions (from 1) whose default is a sub-function
SubFunctionPositions(name) ==
    {i \in 1 .. Len(meta(name).param_names) : meta(name).default[i] # ""}

\* the call at the root, compiled from a formula with n arguments, has one
\* argument per declared parameter, and at each sub-function position a call
\* of the default function over the n arguments, registered once as a parent
\* of each of them
SynthesizedInPlace(name, n) ==
    LET args == heap[root].args
    IN  /\ Len(args) = Len(meta(name).param_names)
        /\ \A i \in SubFunctionPositions(name) :
              /\ heap[args[i]].kind = "Call"
              /\ heap[args[i]].function = meta(name).default[i]
              /\ heap[args[i]].args = SubSeq(args, 1, n)
              /\ \A j \in 1 .. n : Count(heap[args[j]].node_parents, args[i]) = 1

\* the formulas from which the tree, just compiled, may come
Compiled(e) ==
    /\ last.op = "init" /\ e[1] = "Call"
    /\ heap = Build(<<>>, e).heap

\* C13: a call compiled with n arguments, n not more than the leading shared
\* parameters, has exactly one argument per declared parameter, and at every
\* sub-function position a synthesized call of that parameter's default
\* function over the caller's arguments, registered as a parent of each of
\* them exactly once.
C13_SynthesizedCallsFillTheirPositions ==
    \A e \in TypeFormulas :
        (/\ Compiled(e) /\ SubFunctionPositions(e[2]) # {}
         /\ Len(e[3]) <= sub_arg_len(meta(e[2]).default, Len(meta(e[2]).param_names))) =>
            SynthesizedInPlace(e[2], Len(e[3]))

\* what holds when the caller gives every leading shared argument
C13_WithEverySharedArgument ==
    \A e \in TypeFormulas :
        (/\ Compiled(e) /\ SubFunctionPositions(e[2]) # {}
         /\ Len(e[3]) = sub_arg_len(meta(e[2]).default, Len(meta(e[2]).param_names))) =>
            SynthesizedInPlace(e[2], Len(e[3]))

\* the filter flags under which an evaluation read the dataset
FiltsOf(rs) == {r[3] : r \in rs}

\* two evaluations of the column-wise call k, one right after the other
EvaluatedTwice(k) ==
    /\ IsColumnWise(k)
    /\ last.op = "fvalue" /\ last.self = k
    /\ last'.op = "fvalue" /\ last'.self = k

\* the later evaluation is answered from the memo, or it materializes the
\* argument columns under the filter flag opposite to the earlier one's
MemoOrOppositeFilter(k) ==
    \/ heap[k].cached_value # None
    \/ /\ reads # {} /\ reads' # {}
       /\ FiltsOf(reads) \cap FiltsOf(reads') = {}

\* C14: with no invalidation in between, a later evaluation of a column-wise
\* call returns the value the earlier one returned, at whatever row index and
\* under whichever filter flag it is asked.
C14_OneValueBetweenInvalidations ==
    [][\A k \in Nodes :
          (EvaluatedTwice(k) /\ MemoOrOppositeFilter(k)) => result' = result]_vars

\* what holds while the memo is present: it is what every evaluation returns,
\* and the dataset is not read
C14_MemoIsReturned ==
    [][\A k \in Nodes :
          (/\ IsColumnWise(k) /\ heap[k].cached_value # None
           /\ last'.op = "fvalue" /\ last'.self = k /\ last' # last) =>
              result' = heap[k].cached_value /\ reads' = {}]_vars

=============================================================================
